---- MODULE Spec2Model ----
(***************************************************************************)
(* Model of the uptime checker's job registry (HealthcheckServer), its     *)
(* HTTP handlers and its per-job runner goroutines (src/main.go).          *)
(*                                                                         *)
(* Every HTTP request is served by net/http on a goroutine of its own, and *)
(* the server takes no lock, so the handlers interleave with each other    *)
(* and with the runners at the level of single shared-memory accesses.     *)
(* Each action below is one such access (or one access followed by code    *)
(* that touches only locals of the goroutine).                             *)
(*                                                                         *)
(* Go runtime behaviour the model relies on:                               *)
(*   - the map is not safe for concurrent use: when a map write (assign,   *)
(*     delete) of one goroutine runs at the same time as a map access of   *)
(*     another, the runtime may end the process ("fatal error: concurrent  *)
(*     map writes" / "concurrent map read and map write"), see MapRace;    *)
(*     otherwise the two accesses take effect one after the other;         *)
(*   - close of a closed channel panics; a receive from a closed channel   *)
(*     is always ready; select picks among ready cases at random;          *)
(*   - a time.Ticker's channel holds at most one tick, a tick that finds   *)
(*     it full is dropped, Stop leaves a buffered tick in place;           *)
(*   - time.NewTicker panics for an interval <= 0;                         *)
(*   - a panic in a handler goroutine is recovered by net/http (the        *)
(*     request gets no response, the process lives on); a panic in any     *)
(*     other goroutine ends the process.                                   *)
(*                                                                         *)
(* h.wg is only waited on by Run after the HTTP server has stopped; it is  *)
(* not a variable here: its count is the number of runners not yet done.   *)
(*                                                                         *)
(* Four specifications share the actions:                                  *)
(*   - Spec: the clients send one request at a time while runners and      *)
(*     tickers run freely;                                                 *)
(*   - SpecConc: requests overlap within a window too short for a ticker   *)
(*     to fire;                                                            *)
(*   - SpecClock: jobs are added and left alone, tickers fire by a clock   *)
(*     that advances once every goroutine is blocked, checks take time     *)
(*     and return UP or DOWN;                                              *)
(*   - SpecVerify: one call of check() on given probe parameters against   *)
(*     a given behaviour of the probed service.                            *)
(***************************************************************************)
EXTENDS Integers, Sequences, FiniteSets, TLC

\* Number of HTTP requests the clients send in one run.
MaxCalls == 3
\* Number of requests being served at the same time.
MaxInFlight == 2
\* Job ids the clients address in GET/PUT/DELETE /jobs/{id}: 1..MaxId.
MaxId == 2

\* HTTP status codes written by the handlers.
StatusOK == 200
StatusCreated == 201
StatusNoContent == 204
StatusNotFound == 404

\* Zero values of chan struct{} and *time.Ticker (healthcheckJob's fields).
NilChan == 0
NilTicker == 0

\* Zero value of HealthcheckQuery. Url stands for the probe parameters
\* (Url, Method, ExpectedStatus, JqQuery), which the registry only copies.
ZeroHC == [Id |-> 0, Url |-> "", Frequency |-> 0]

\* Zero value of healthcheckJob: what a map read yields for an absent key.
ZeroJob == [healthcheck |-> ZeroHC, quit |-> NilChan, ticker |-> NilTicker]

\* Job definitions as decoded from a request body: UnmarshalJSON sets every
\* field but Id. A frequency of "0s" decodes without error.
Payloads ==
    { [Id |-> 0, Url |-> "a", Frequency |-> 1],
      [Id |-> 0, Url |-> "b", Frequency |-> 2],
      [Id |-> 0, Url |-> "a", Frequency |-> 0] }

Calls == 1..MaxCalls
Ids == 1..MaxId

VARIABLES
    healthchecks,       \* h.healthchecks: id -> healthcheckJob
    nextHealthcheckId,  \* h.nextHealthcheckId
    chans,              \* quit channels made so far: number of close() calls
    tickers,            \* tickers made so far: [freq, stopped, pending]
    runners,            \* runJob goroutines spawned so far: [id, pc, job]
    calls,              \* the HTTP requests: handler goroutines
    crashed,            \* the process has died (unrecovered panic, fatal)
    now,                \* the clock the tickers run on, in units of time
    elapsed,            \* per ticker: the time since it was made
    stats,              \* per runner: its checks and their result records
    probe               \* one call of check(): its inputs and its result

\* The clock and the bookkeeping of checks, which only the specifications
\* that measure time or follow one check change.
aux == <<now, elapsed, stats, probe>>

vars == <<healthchecks, nextHealthcheckId, chans, tickers,
          runners, calls, crashed, aux>>

\* No call of check() is being followed.
NoProbe == [pc |-> "none"]

\* A request not yet sent.
IdleCall ==
    [op |-> "none", pc |-> "idle", id |-> 0, hc |-> ZeroHC, job |-> ZeroJob,
     ok |-> FALSE, n |-> 0, ret |-> 0, status |-> 0, spawned |-> 0,
     closedq |-> NilChan, jobs |-> {}, quiet |-> FALSE]

\* The server as NewHealthcheckServer makes it, and the clock at zero.
NoJobs ==
    /\ healthchecks = [k \in {} |-> ZeroJob]
    /\ nextHealthcheckId = 0
    /\ chans = <<>>
    /\ tickers = <<>>
    /\ runners = <<>>
    /\ calls = [c \in Calls |-> IdleCall]
    /\ crashed = FALSE
    /\ now = 0
    /\ elapsed = <<>>
    /\ stats = <<>>

Init == NoJobs /\ probe = NoProbe

----------------------------------------------------------------------------
\* Helpers

\* m[k] = v
MapPut(m, k, v) == [x \in (DOMAIN m) \cup {k} |-> IF x = k THEN v ELSE m[x]]

\* delete(m, k)
MapDelete(m, k) == [x \in (DOMAIN m) \ {k} |-> m[x]]

\* v, ok := m[k]
MapGet(m, k) == IF k \in DOMAIN m THEN m[k] ELSE ZeroJob

\* time.NewTicker(d). pending is the number of ticks in the ticker's
\* channel.
NewTicker(d) == [freq |-> d, stopped |-> FALSE, pending |-> 0]

\* Deliver with a channel that queues every tick.
DeliverQueued(tk) == [tk EXCEPT !.pending = @ + 1]

\* A period of ticker tk has elapsed: the tick is sent without blocking on
\* the ticker's channel, which has room for one tick; a tick that finds
\* the channel full is dropped.
Deliver(tk) == IF tk.pending = 0 THEN [tk EXCEPT !.pending = 1] ELSE tk

\* The handler goroutine of call c moves on; f gives the fields it changes.
SetCall(c, f) == calls' = [calls EXCEPT ![c] = f]

\* A handler returns: its locals are gone, what the client and the history
\* of the run can see is kept (AddReturn and UpdateSpawn keep job as well).
Finish(c, st) ==
    [calls[c] EXCEPT !.pc = "done", !.status = st, !.hc = ZeroHC,
                     !.job = ZeroJob, !.n = 0]

\* A handler panics: net/http recovers it, the client gets no response.
Panic(c) ==
    [calls[c] EXCEPT !.pc = "panicked", !.hc = ZeroHC, !.job = ZeroJob,
                     !.n = 0]

\* A fatal runtime error or an unrecovered panic: the process is gone.
Crash ==
    /\ crashed' = TRUE
    /\ UNCHANGED <<healthchecks, nextHealthcheckId, chans,
                   tickers, runners, calls, aux>>

\* The requests being served.
InFlight == {c \in Calls : calls[c].pc \notin {"idle", "done", "panicked"}}

\* A client sends request c. Requests are sent in the order of their slots.
CanSend(c) ==
    /\ ~crashed
    /\ calls[c].pc = "idle"
    /\ c > 1 => calls[c - 1].pc # "idle"

----------------------------------------------------------------------------
\* POST /jobs/ : handleAddJob and AddHealthcheck

AddInvoke(c, p) ==
    /\ CanSend(c)
    /\ SetCall(c, [calls[c] EXCEPT !.op = "Add", !.pc = "add_incr", !.hc = p])
    /\ UNCHANGED <<healthchecks, nextHealthcheckId, chans,
                   tickers, runners, crashed, aux>>

\* h.nextHealthcheckId++ : the load
AddIncrLoad(c) ==
    /\ ~crashed
    /\ calls[c].pc = "add_incr"
    /\ SetCall(c, [calls[c] EXCEPT !.pc = "add_incr_store",
                                   !.n = nextHealthcheckId])
    /\ UNCHANGED <<healthchecks, nextHealthcheckId, chans,
                   tickers, runners, crashed, aux>>

\* h.nextHealthcheckId++ : the store
AddIncrStore(c) ==
    /\ ~crashed
    /\ calls[c].pc = "add_incr_store"
    /\ nextHealthcheckId' = calls[c].n + 1
    /\ SetCall(c, [calls[c] EXCEPT !.pc = "add_prepare", !.n = 0])
    /\ UNCHANGED <<healthchecks, chans, tickers, runners,
                   crashed, aux>>

\* healthcheck.Id = h.nextHealthcheckId; quit := make(...);
\* ticker := time.NewTicker(healthcheck.Frequency)
AddPrepare(c) ==
    /\ ~crashed
    /\ calls[c].pc = "add_prepare"
    /\ IF calls[c].hc.Frequency <= 0
       THEN /\ SetCall(c, Panic(c))
            /\ UNCHANGED <<chans, tickers>>
       ELSE /\ chans' = Append(chans, 0)
            /\ tickers' = Append(tickers, NewTicker(calls[c].hc.Frequency))
            /\ SetCall(c, [calls[c] EXCEPT
                    !.pc = "add_store",
                    !.hc = [@ EXCEPT !.Id = nextHealthcheckId],
                    !.job = [healthcheck |->
                                [calls[c].hc EXCEPT !.Id = nextHealthcheckId],
                             quit |-> Len(chans) + 1,
                             ticker |-> Len(tickers) + 1]])
    /\ UNCHANGED <<healthchecks, nextHealthcheckId, runners,
                   crashed, aux>>

\* h.healthchecks[h.nextHealthcheckId] = healthcheckJob{...}
AddStore(c) ==
    /\ ~crashed
    /\ calls[c].pc = "add_store"
    /\ healthchecks' = MapPut(healthchecks, nextHealthcheckId, calls[c].job)
    /\ SetCall(c, [calls[c] EXCEPT !.pc = "add_spawn"])
    /\ UNCHANGED <<nextHealthcheckId, chans, tickers, runners, crashed,
                   aux>>

\* h.wg.Add(1); go h.runJob(h.nextHealthcheckId)
AddSpawn(c) ==
    /\ ~crashed
    /\ calls[c].pc = "add_spawn"
    /\ runners' = Append(runners, [id |-> nextHealthcheckId, pc |-> "start",
                                   job |-> ZeroJob])
    /\ SetCall(c, [calls[c] EXCEPT !.pc = "add_return",
                                   !.spawned = Len(runners) + 1])
    /\ UNCHANGED <<healthchecks, nextHealthcheckId, chans,
                   tickers, crashed, aux>>

\* return h.nextHealthcheckId; the handler echoes the job with that id, 201.
\* The record keeps, as history, the job this call stored.
AddReturn(c) ==
    /\ ~crashed
    /\ calls[c].pc = "add_return"
    /\ SetCall(c, [Finish(c, StatusCreated) EXCEPT !.ret = nextHealthcheckId,
                                                  !.job = calls[c].job])
    /\ UNCHANGED <<healthchecks, nextHealthcheckId, chans,
                   tickers, runners, crashed, aux>>

----------------------------------------------------------------------------
\* The runner goroutines and the tickers

\* job := h.healthchecks[id]
RunStart(r) ==
    /\ ~crashed
    /\ runners[r].pc = "start"
    /\ runners' = [runners EXCEPT ![r] =
            [@ EXCEPT !.pc = "select",
                      !.job = MapGet(healthchecks, runners[r].id)]]
    /\ UNCHANGED <<healthchecks, nextHealthcheckId, chans, tickers, calls,
                   crashed, aux>>

\* select on job.ticker.C with a nil ticker: nil pointer dereference
RunNilTicker(r) ==
    /\ ~crashed
    /\ runners[r].pc = "select"
    /\ runners[r].job.ticker = NilTicker
    /\ Crash

\* case <-job.ticker.C: the tick is received and the check starts. What
\* the step does to the ticker and to the runner:
TakeTick(r) ==
    /\ ~crashed
    /\ runners[r].pc = "select"
    /\ runners[r].job.ticker # NilTicker
    /\ tickers[runners[r].job.ticker].pending > 0
    /\ tickers' = [tickers EXCEPT ![runners[r].job.ticker].pending = @ - 1]
    /\ runners' = [runners EXCEPT ![r].pc = "check"]

RunTick(r) ==
    /\ TakeTick(r)
    /\ UNCHANGED <<healthchecks, nextHealthcheckId, chans,
                   calls, crashed, aux>>

\* CheckReturns with a circuit breaker: a DOWN result ends the runner.
CheckReturnsOrGivesUp(r, up) ==
    /\ ~crashed
    /\ runners[r].pc = "check"
    /\ runners' = [runners EXCEPT ![r].pc = IF up THEN "select" ELSE "done"]

\* job.healthcheck.check() returns up (true: UP, false: DOWN), the result
\* is logged and the loop goes round. What the step does to the runner:
CheckReturns(r, up) ==
    /\ ~crashed
    /\ runners[r].pc = "check"
    /\ runners' = [runners EXCEPT ![r].pc = "select"]

RunCheckDone(r) ==
    /\ \E up \in BOOLEAN : CheckReturns(r, up)
    /\ UNCHANGED <<healthchecks, nextHealthcheckId, chans,
                   tickers, calls, crashed, aux>>

\* case <-job.quit: job.ticker.Stop(); return
RunQuit(r) ==
    /\ ~crashed
    /\ runners[r].pc = "select"
    /\ runners[r].job.ticker # NilTicker
    /\ runners[r].job.quit # NilChan
    /\ chans[runners[r].job.quit] >= 1
    /\ tickers' = [tickers EXCEPT ![runners[r].job.ticker].stopped = TRUE]
    /\ runners' = [runners EXCEPT ![r].pc = "done"]
    /\ UNCHANGED <<healthchecks, nextHealthcheckId, chans,
                   calls, crashed, aux>>

\* A period of ticker t elapses: the tick is buffered, or dropped when the
\* channel still holds the previous one.
Tick(t) ==
    /\ ~crashed
    /\ ~tickers[t].stopped
    /\ tickers[t].pending = 0
    /\ tickers' = [tickers EXCEPT ![t] = Deliver(@)]
    /\ UNCHANGED <<healthchecks, nextHealthcheckId, chans,
                   runners, calls, crashed, aux>>

----------------------------------------------------------------------------
\* PUT /jobs/{id} : handlePutJob and UpdateHealthcheck

\* healthcheck.Id = jobId; json.NewEncoder(w).Encode(healthcheck): the body
\* of the answer to a PUT is the definition it was sent, with the id of the
\* path.
Echo(c) == [calls[c].hc EXCEPT !.Id = calls[c].id]

\* UpdateLookup without its "job.healthcheck = healthcheck": the job keeps
\* the definition it had.
UpdateLookupStale(c) ==
    /\ ~crashed
    /\ calls[c].pc = "upd_lookup"
    /\ IF calls[c].id \in DOMAIN healthchecks
       THEN SetCall(c, [calls[c] EXCEPT
                !.pc = "upd_ticker",
                !.ok = TRUE,
                !.job = healthchecks[calls[c].id]])
       ELSE SetCall(c, [Finish(c, StatusOK) EXCEPT !.hc = Echo(c)])
    /\ UNCHANGED <<healthchecks, nextHealthcheckId, chans, tickers, runners,
                   crashed, aux>>

UpdateInvoke(c, id, p) ==
    /\ CanSend(c)
    /\ SetCall(c, [calls[c] EXCEPT !.op = "Update", !.pc = "upd_lookup",
                                   !.id = id, !.hc = p])
    /\ UNCHANGED <<healthchecks, nextHealthcheckId, chans, tickers, runners,
                   crashed, aux>>

\* job, ok := h.healthchecks[id]; if !ok { return } -- and the handler
\* answers 200 with the body it was sent; job.healthcheck = healthcheck
UpdateLookup(c) ==
    /\ ~crashed
    /\ calls[c].pc = "upd_lookup"
    /\ IF calls[c].id \in DOMAIN healthchecks
       THEN SetCall(c, [calls[c] EXCEPT
                !.pc = "upd_ticker",
                !.ok = TRUE,
                !.job = [healthchecks[calls[c].id] EXCEPT
                            !.healthcheck = calls[c].hc]])
       ELSE SetCall(c, [Finish(c, StatusOK) EXCEPT !.hc = Echo(c)])
    /\ UNCHANGED <<healthchecks, nextHealthcheckId, chans, tickers, runners,
                   crashed, aux>>

\* job.ticker.Stop(); job.ticker = time.NewTicker(healthcheck.Frequency)
UpdateTicker(c) ==
    /\ ~crashed
    /\ calls[c].pc = "upd_ticker"
    /\ IF calls[c].hc.Frequency <= 0
       THEN /\ tickers' = [tickers EXCEPT ![calls[c].job.ticker].stopped = TRUE]
            /\ SetCall(c, Panic(c))
       ELSE /\ tickers' = Append(
                    [tickers EXCEPT ![calls[c].job.ticker].stopped = TRUE],
                    NewTicker(calls[c].hc.Frequency))
            /\ SetCall(c, [calls[c] EXCEPT !.pc = "upd_close",
                                           !.job.ticker = Len(tickers) + 1])
    /\ UNCHANGED <<healthchecks, nextHealthcheckId, chans, runners, crashed,
                   aux>>

\* close(job.quit); job.quit = make(chan struct{})
UpdateClose(c) ==
    /\ ~crashed
    /\ calls[c].pc = "upd_close"
    /\ IF chans[calls[c].job.quit] >= 1
       THEN /\ chans' = [chans EXCEPT ![calls[c].job.quit] = @ + 1]
            /\ SetCall(c, Panic(c))
       ELSE /\ chans' = Append([chans EXCEPT ![calls[c].job.quit] = 1], 0)
            /\ SetCall(c, [calls[c] EXCEPT !.pc = "upd_store",
                                           !.closedq = calls[c].job.quit,
                                           !.job.quit = Len(chans) + 1])
    /\ UNCHANGED <<healthchecks, nextHealthcheckId, tickers, runners,
                   crashed, aux>>

\* h.wg.Add(1); h.healthchecks[id] = job
UpdateStore(c) ==
    /\ ~crashed
    /\ calls[c].pc = "upd_store"
    /\ healthchecks' = MapPut(healthchecks, calls[c].id, calls[c].job)
    /\ SetCall(c, [calls[c] EXCEPT !.pc = "upd_spawn"])
    /\ UNCHANGED <<nextHealthcheckId, chans, tickers, runners, crashed,
                   aux>>

\* go h.runJob(id); the handler answers 200 with the body it was sent.
\* The record keeps, as history, the job this call stored.
UpdateSpawn(c) ==
    /\ ~crashed
    /\ calls[c].pc = "upd_spawn"
    /\ runners' = Append(runners, [id |-> calls[c].id, pc |-> "start",
                                   job |-> ZeroJob])
    /\ SetCall(c, [Finish(c, StatusOK) EXCEPT !.spawned = Len(runners) + 1,
                                             !.job = calls[c].job,
                                             !.hc = Echo(c)])
    /\ UNCHANGED <<healthchecks, nextHealthcheckId, chans, tickers, crashed,
                   aux>>

----------------------------------------------------------------------------
\* DELETE /jobs/{id} : handleDeleteJob and StopHealthcheck

DeleteInvoke(c, id) ==
    /\ CanSend(c)
    /\ SetCall(c, [calls[c] EXCEPT !.op = "Delete", !.pc = "del_lookup",
                                   !.id = id])
    /\ UNCHANGED <<healthchecks, nextHealthcheckId, chans, tickers, runners,
                   crashed, aux>>

\* StopLookup without its "if !ok { return }": for an absent id the zero
\* job's nil channel is closed, which panics.
StopLookupUnchecked(c) ==
    /\ ~crashed
    /\ calls[c].pc = "del_lookup"
    /\ IF calls[c].id \in DOMAIN healthchecks
       THEN SetCall(c, [calls[c] EXCEPT !.pc = "del_close", !.ok = TRUE,
                                       !.job = healthchecks[calls[c].id]])
       ELSE SetCall(c, Panic(c))
    /\ UNCHANGED <<healthchecks, nextHealthcheckId, chans, tickers, runners,
                   crashed, aux>>

\* job, ok := h.healthchecks[id]; if !ok { return } -- and the handler
\* answers 204
StopLookup(c) ==
    /\ ~crashed
    /\ calls[c].pc = "del_lookup"
    /\ IF calls[c].id \in DOMAIN healthchecks
       THEN SetCall(c, [calls[c] EXCEPT !.pc = "del_close", !.ok = TRUE,
                                       !.job = healthchecks[calls[c].id]])
       ELSE SetCall(c, Finish(c, StatusNoContent))
    /\ UNCHANGED <<healthchecks, nextHealthcheckId, chans, tickers, runners,
                   crashed, aux>>

\* close(job.quit)
StopClose(c) ==
    /\ ~crashed
    /\ calls[c].pc = "del_close"
    /\ IF chans[calls[c].job.quit] >= 1
       THEN /\ chans' = [chans EXCEPT ![calls[c].job.quit] = @ + 1]
            /\ SetCall(c, Panic(c))
       ELSE /\ chans' = [chans EXCEPT ![calls[c].job.quit] = 1]
            /\ SetCall(c, [calls[c] EXCEPT !.pc = "del_delete",
                                           !.closedq = calls[c].job.quit])
    /\ UNCHANGED <<healthchecks, nextHealthcheckId, tickers, runners,
                   crashed, aux>>

\* delete(h.healthchecks, id); the handler answers 204
StopDelete(c) ==
    /\ ~crashed
    /\ calls[c].pc = "del_delete"
    /\ healthchecks' = MapDelete(healthchecks, calls[c].id)
    /\ SetCall(c, Finish(c, StatusNoContent))
    /\ UNCHANGED <<nextHealthcheckId, chans, tickers, runners, crashed,
                   aux>>

----------------------------------------------------------------------------
\* GET /jobs/{id} : handleGetJob

GetInvoke(c, id) ==
    /\ CanSend(c)
    /\ SetCall(c, [calls[c] EXCEPT !.op = "Get", !.pc = "get", !.id = id])
    /\ UNCHANGED <<healthchecks, nextHealthcheckId, chans, tickers, runners,
                   crashed, aux>>

\* job, ok := h.healthchecks[jobId]: 404, or 200 with job.healthcheck
GetJob(c) ==
    /\ ~crashed
    /\ calls[c].pc = "get"
    /\ IF calls[c].id \in DOMAIN healthchecks
       THEN SetCall(c, [Finish(c, StatusOK) EXCEPT
                !.ok = TRUE,
                !.hc = healthchecks[calls[c].id].healthcheck])
       ELSE SetCall(c, Finish(c, StatusNotFound))
    /\ UNCHANGED <<healthchecks, nextHealthcheckId, chans, tickers, runners,
                   crashed, aux>>

----------------------------------------------------------------------------
\* GET /jobs/ : handleGetAllJobs

\* quiet records that no other request was being served when this one
\* arrived (history only: the program does not read it).
ListInvoke(c) ==
    /\ CanSend(c)
    /\ SetCall(c, [calls[c] EXCEPT !.op = "List", !.pc = "list",
                                   !.quiet = (InFlight = {})])
    /\ UNCHANGED <<healthchecks, nextHealthcheckId, chans, tickers, runners,
                   crashed, aux>>

\* One iteration of: for _, job := range h.healthchecks { jobs = append(...) }
\* The order of a map iteration is not fixed; every entry is visited at
\* most once. jobs keeps each job with the key it was found under.
ListNext(c, k) ==
    /\ ~crashed
    /\ calls[c].pc = "list"
    /\ k \in DOMAIN healthchecks
    /\ k \notin {e.key : e \in calls[c].jobs}
    /\ SetCall(c, [calls[c] EXCEPT !.jobs = @ \cup
                    {[key |-> k, hc |-> healthchecks[k].healthcheck]}])
    /\ UNCHANGED <<healthchecks, nextHealthcheckId, chans, tickers, runners,
                   crashed, aux>>

\* The iteration is over; the handler has answered 200 and encodes jobs.
ListEnd(c) ==
    /\ ~crashed
    /\ calls[c].pc = "list"
    /\ DOMAIN healthchecks \subseteq {e.key : e \in calls[c].jobs}
    /\ SetCall(c, Finish(c, StatusOK))
    /\ UNCHANGED <<healthchecks, nextHealthcheckId, chans, tickers, runners,
                   crashed, aux>>

----------------------------------------------------------------------------
\* Unsynchronised map accesses

\* The handler of call c is about to write the map / to read it.
MapWriter(c) == calls[c].pc \in {"add_store", "upd_store", "del_delete"}
MapReader(c) == calls[c].pc \in {"upd_lookup", "del_lookup", "get", "list"}

\* A map write of one goroutine and a map access of another are about to
\* run with nothing ordering them: they may overlap, and the runtime then
\* ends the process with a fatal error.
MapRace ==
    /\ ~crashed
    /\ \E c \in Calls :
          /\ MapWriter(c)
          /\ \/ \E d \in Calls \ {c} : MapWriter(d) \/ MapReader(d)
             \/ \E r \in DOMAIN runners : runners[r].pc = "start"
    /\ Crash

----------------------------------------------------------------------------
\* The next-state relations

\* A client sends a request.
Send ==
    \/ \E c \in Calls, p \in Payloads : AddInvoke(c, p)
    \/ \E c \in Calls, id \in Ids, p \in Payloads : UpdateInvoke(c, id, p)
    \/ \E c \in Calls, id \in Ids : DeleteInvoke(c, id)
    \/ \E c \in Calls, id \in Ids : GetInvoke(c, id)
    \/ \E c \in Calls : ListInvoke(c)

\* A handler goroutine takes a step.
Handle ==
    \/ \E c \in Calls : AddIncrLoad(c)
    \/ \E c \in Calls : AddIncrStore(c)
    \/ \E c \in Calls : AddPrepare(c)
    \/ \E c \in Calls : AddStore(c)
    \/ \E c \in Calls : AddSpawn(c)
    \/ \E c \in Calls : AddReturn(c)
    \/ \E c \in Calls : UpdateLookup(c)
    \/ \E c \in Calls : UpdateTicker(c)
    \/ \E c \in Calls : UpdateClose(c)
    \/ \E c \in Calls : UpdateStore(c)
    \/ \E c \in Calls : UpdateSpawn(c)
    \/ \E c \in Calls : StopLookup(c)
    \/ \E c \in Calls : StopClose(c)
    \/ \E c \in Calls : StopDelete(c)
    \/ \E c \in Calls : GetJob(c)
    \/ \E c \in Calls : \E k \in DOMAIN healthchecks : ListNext(c, k)
    \/ \E c \in Calls : ListEnd(c)
    \/ MapRace

\* A runner goroutine starts or stops.
RunLife ==
    \/ \E r \in DOMAIN runners : RunStart(r)
    \/ \E r \in DOMAIN runners : RunNilTicker(r)
    \/ \E r \in DOMAIN runners : RunQuit(r)

\* A ticker fires, a runner takes a tick or ends a check.
RunCheck ==
    \/ \E t \in DOMAIN tickers : Tick(t)
    \/ \E r \in DOMAIN runners : RunTick(r)
    \/ \E r \in DOMAIN runners : RunCheckDone(r)

\* Requests arrive one at a time: each is answered before the next is sent.
\* Runners and tickers run concurrently with the handlers.
Next ==
    \/ (InFlight = {} /\ Send)
    \/ Handle
    \/ RunLife
    \/ RunCheck

Spec == Init /\ [][Next]_vars

\* Requests overlap, up to MaxInFlight at a time, within a window shorter
\* than the period of any ticker: no tick fires.
NextConc ==
    \/ (Cardinality(InFlight) < MaxInFlight /\ Send)
    \/ Handle
    \/ RunLife

SpecConc == Init /\ [][NextConc]_vars

----------------------------------------------------------------------------
\* Jobs under a controlled clock

\* The clock is advanced this many units of time in one run.
MaxTime == 5
\* A check takes 0..MaxDur units of time.
MaxDur == 2
\* Number of jobs added under the controlled clock.
MaxJobs == 2

\* What is kept about a runner: the checks it started and the result
\* records it wrote, the number of DOWN results in a row, the time its
\* check in flight still takes (left) and takes in all (dur), whether one
\* of its checks took a period or more (slow), the checks it started at
\* the present instant (atonce), how long the check before took (prev) and
\* when it returned (ret).
ZeroStat ==
    [started |-> 0, logged |-> 0, fails |-> 0, left |-> 0, dur |-> 0,
     slow |-> FALSE, atonce |-> 0, prev |-> 0, ret |-> 0]

Stat(r) == IF r \in DOMAIN stats THEN stats[r] ELSE ZeroStat

Elapsed(t) == IF t \in DOMAIN elapsed THEN elapsed[t] ELSE 0

SetStat(r, st) ==
    stats' = [i \in DOMAIN runners |-> IF i = r THEN st ELSE Stat(i)]

\* The period of the ticker runner r waits on.
Period(r) == tickers[runners[r].job.ticker].freq

\* Fires that fires at every unit of time, whatever the period.
FiresAlways(t, e) == e > 0

\* Ticker t, made e units of time ago with time.NewTicker(d), fires: it
\* does so every d units.
Fires(t, e) == e > 0 /\ e % tickers[t].freq = 0

\* case <-job.ticker.C under the clock: the check that starts takes d
\* units of time.
ClockRunTick(r, d) ==
    /\ TakeTick(r)
    /\ SetStat(r, [Stat(r) EXCEPT !.started = @ + 1,
                                  !.left = d,
                                  !.dur = d,
                                  !.slow = @ \/ d >= Period(r),
                                  !.atonce = @ + 1])
    /\ UNCHANGED <<healthchecks, nextHealthcheckId, chans, calls, crashed,
                   now, elapsed, probe>>

\* check() returns when its time is up; slog.Info writes the one result
\* record of the check, with "status" UP or DOWN.
ClockCheckDone(r, up) ==
    /\ Stat(r).left = 0
    /\ CheckReturns(r, up)
    /\ SetStat(r, [Stat(r) EXCEPT !.logged = @ + 1,
                                  !.fails = IF up THEN 0 ELSE @ + 1,
                                  !.prev = Stat(r).dur,
                                  !.ret = now])
    /\ UNCHANGED <<healthchecks, nextHealthcheckId, chans, tickers, calls,
                   crashed, now, elapsed, probe>>

\* Every goroutine is blocked: no request is being served, every runner
\* waits in its select with nothing to receive or is inside a check that
\* takes more time.
Settled ==
    /\ InFlight = {}
    /\ \A r \in DOMAIN runners :
          /\ runners[r].pc # "start"
          /\ (runners[r].pc = "select" /\ runners[r].job.ticker # NilTicker)
                => tickers[runners[r].job.ticker].pending = 0
          /\ runners[r].pc = "check" => Stat(r).left > 0

\* The clock is advanced by one unit once the goroutines have settled:
\* every ticker whose period has elapsed delivers a tick, every check in
\* flight has one unit less to go.
Advance ==
    /\ ~crashed
    /\ now < MaxTime
    /\ Settled
    /\ now' = now + 1
    /\ elapsed' = [t \in DOMAIN tickers |-> Elapsed(t) + 1]
    /\ tickers' = [t \in DOMAIN tickers |->
                    IF ~tickers[t].stopped /\ Fires(t, Elapsed(t) + 1)
                    THEN Deliver(tickers[t])
                    ELSE tickers[t]]
    /\ stats' = [r \in DOMAIN runners |->
                    [Stat(r) EXCEPT !.left = IF @ > 0 THEN @ - 1 ELSE 0,
                                    !.atonce = 0]]
    /\ UNCHANGED <<healthchecks, nextHealthcheckId, chans, runners, calls,
                   crashed, probe>>

\* A handler goroutine serving a POST takes a step.
HandleAdd ==
    \/ \E c \in Calls : AddIncrLoad(c)
    \/ \E c \in Calls : AddIncrStore(c)
    \/ \E c \in Calls : AddPrepare(c)
    \/ \E c \in Calls : AddStore(c)
    \/ \E c \in Calls : AddSpawn(c)
    \/ \E c \in Calls : AddReturn(c)
    \/ MapRace

\* Jobs are added one request at a time and are neither updated nor
\* deleted; their runners work under the controlled clock.
NextClock ==
    \/ (InFlight = {} /\ \E c \in 1..MaxJobs, p \in Payloads : AddInvoke(c, p))
    \/ HandleAdd
    \/ \E r \in DOMAIN runners : RunStart(r)
    \/ \E r \in DOMAIN runners, d \in 0..MaxDur : ClockRunTick(r, d)
    \/ \E r \in DOMAIN runners, up \in BOOLEAN : ClockCheckDone(r, up)
    \/ Advance

SpecClock == Init /\ [][NextClock]_vars

----------------------------------------------------------------------------
\* One call of check()

\* A jq query yields at most this many results.
MaxResults == 2

\* Values a jq query can yield, as Go holds them in an interface{}: a
\* dynamic type and a value.
Box(s) == [type |-> "string", text |-> s]
Values ==
    { Box("up"), Box("down"), Box("1"), [type |-> "float64", text |-> "1"] }

\* The results of h.JqQuery.Query.Run(data), in order.
ResultSeqs == UNION {[1..n -> Values] : n \in 0..MaxResults}

\* The probe parameters of a job definition: HasQuery is
\* h.JqQuery.Query != nil.
Queries ==
    { [Method |-> m, ExpectedStatus |-> st, HasQuery |-> FALSE,
       Expectation |-> ""] :
            m \in {"GET", "get", "POST"}, st \in {StatusOK, StatusNotFound} }
    \cup
    { [Method |-> m, ExpectedStatus |-> st, HasQuery |-> TRUE,
       Expectation |-> e] :
            m \in {"GET", "get", "POST"}, st \in {StatusOK, StatusNotFound},
            e \in {"up", "1"} }

\* What the probed service does: http.NewRequest fails ("norequest"),
\* httpClient.Do fails ("noresponse"), or a response arrives with a status
\* code and a body that cannot be read, is not JSON, or is JSON on which
\* the query yields results.
NoResponse(o) ==
    [outcome |-> o, StatusCode |-> 0, Body |-> "", Results |-> <<>>]
Responses ==
    { NoResponse("norequest"), NoResponse("noresponse") }
    \cup
    { [outcome |-> "response", StatusCode |-> st, Body |-> b,
       Results |-> <<>>] :
            st \in {StatusOK, StatusNotFound}, b \in {"unreadable", "text"} }
    \cup
    { [outcome |-> "response", StatusCode |-> st, Body |-> "json",
       Results |-> rs] :
            st \in {StatusOK, StatusNotFound}, rs \in ResultSeqs }

\* checkJSON that looks for the expectation among all the results.
CheckJSONAny(h, resp) ==
    IF resp.Body = "unreadable" THEN "Error reading response body"
    ELSE IF resp.Body # "json" THEN "Error deserializing response body"
    ELSE IF resp.Results = <<>> THEN "Error parsing response body"
    ELSE IF \A i \in DOMAIN resp.Results :
                resp.Results[i] # Box(h.Expectation)
         THEN "Expectation failed"
         ELSE "nil"

\* checkJSON(h, resp): the error it returns, "nil" for none. The first
\* result, an interface{}, is compared with the expectation, a string.
CheckJSON(h, resp) ==
    IF resp.Body = "unreadable" THEN "Error reading response body"
    ELSE IF resp.Body # "json" THEN "Error deserializing response body"
    ELSE IF resp.Results = <<>> THEN "Error parsing response body"
    ELSE IF Head(resp.Results) # Box(h.Expectation)
         THEN "Expectation failed"
         ELSE "nil"

\* h.check(): Status of the HealthcheckResponse it returns.
Check(h, resp) ==
    IF h.Method # "GET" THEN FALSE
    ELSE IF resp.outcome = "norequest" THEN FALSE
    ELSE IF resp.outcome = "noresponse" THEN FALSE
    ELSE IF resp.StatusCode # h.ExpectedStatus THEN FALSE
    ELSE IF h.HasQuery /\ CheckJSON(h, resp) # "nil" THEN FALSE
    ELSE TRUE

\* check() is about to be called on h, and the service will behave as resp.
InitVerify ==
    /\ NoJobs
    /\ probe \in {[pc |-> "ready", h |-> h, resp |-> resp, up |-> FALSE] :
                    h \in Queries, resp \in Responses}

\* resp := job.healthcheck.check()
CheckRun ==
    /\ probe.pc = "ready"
    /\ probe' = [probe EXCEPT !.pc = "done",
                              !.up = Check(probe.h, probe.resp)]
    /\ UNCHANGED <<healthchecks, nextHealthcheckId, chans, tickers, runners,
                   calls, crashed, now, elapsed, stats>>

NextVerify == CheckRun

SpecVerify == InitVerify /\ [][NextVerify]_vars

----------------------------------------------------------------------------
\* Properties

\* The runners of job id that have been spawned and have not returned.
LiveRunners(id) ==
    {r \in DOMAIN runners : runners[r].id = id /\ runners[r].pc # "done"}

\* The runners of job id that are inside check().
Checking(id) ==
    {r \in DOMAIN runners : runners[r].id = id /\ runners[r].pc = "check"}

RunnerIds == {runners[r].id : r \in DOMAIN runners}

\* Runner r takes the tick branch of its select in this step.
TakesTick(r) == runners[r].pc = "select" /\ runners'[r].pc = "check"

\* Call c is a mutating call between its first read and its last write of
\* the mapping and the counter.
InSection(c) ==
    calls[c].pc \in {"add_incr_store", "add_prepare", "add_store",
                     "upd_ticker", "upd_close", "upd_store",
                     "del_close", "del_delete"}

\* Call c is a Get or a List about to read the mapping.
Reading(c) == calls[c].pc \in {"get", "list"}

\* C1: in every reachable state at most one runner goroutine is live
\* (spawned and not yet returned) for any job id.
C1_OneLiveRunnerPerId ==
    ~crashed => \A id \in RunnerIds : Cardinality(LiveRunners(id)) <= 1

\* C2: once Delete(X) has returned for a live job X, the runner of X (the
\* one whose stop channel the Delete closed) never takes the tick branch
\* again.
C2_NoCheckAfterDelete ==
    [][\A r \in DOMAIN runners :
          TakesTick(r) =>
            ~\E c \in Calls :
                /\ calls[c].op = "Delete" /\ calls[c].pc = "done"
                /\ calls[c].ok
                /\ calls[c].closedq = runners[r].job.quit]_vars

\* C3: once Update(X, newSpec) has returned for a live job X, a runner of X
\* spawned before the one this Update spawned never takes the tick branch
\* again.
C3_NoCheckAfterUpdate ==
    [][\A r \in DOMAIN runners :
          TakesTick(r) =>
            ~\E c \in Calls :
                /\ calls[c].op = "Update" /\ calls[c].pc = "done"
                /\ calls[c].ok
                /\ calls[c].id = runners[r].id
                /\ r < calls[c].spawned]_vars

\* C4: no two mutating calls are at the same time between their first read
\* and their last write of the mapping and the counter, and no Get or List
\* reads the mapping while a mutating call is in that section.
C4_MutualExclusion ==
    ~crashed =>
        /\ Cardinality({c \in Calls : InSection(c)}) <= 1
        /\ \A c, d \in Calls : ~(InSection(c) /\ Reading(d))

\* C5: no stop channel is ever closed twice.
C5_NoDoubleClose == \A q \in DOMAIN chans : chans[q] <= 1

\* C6: for every job id, no two checks are in flight at the same time.
C6_NoOverlappingChecks ==
    ~crashed => \A id \in RunnerIds : Cardinality(Checking(id)) <= 1

\* C7: every Add returns a positive id that no other Add returned, and a
\* later Add returns a larger id than an Add that returned before it was
\* sent.
C7_UniqueIds ==
    \A c, d \in Calls :
        (/\ calls[c].op = "Add" /\ calls[c].pc = "done"
         /\ calls[d].op = "Add" /\ calls[d].pc = "done"
         /\ c < d)
        => /\ calls[c].ret > 0
           /\ calls[d].ret > 0
           /\ calls[c].ret # calls[d].ret

\* The completed Adds and the Deletes that found their job, among the
\* calls sent before call l.
AddsBefore(l) ==
    {c \in 1..(l - 1) : calls[c].op = "Add" /\ calls[c].pc = "done"}
DeletedBefore(l) ==
    {calls[c].id : c \in {d \in 1..(l - 1) :
        calls[d].op = "Delete" /\ calls[d].pc = "done" /\ calls[d].ok}}

\* C8: a List that runs after a set of Add and Delete calls has completed,
\* with no other request served meanwhile, returns exactly the jobs added
\* and not deleted: one entry per completed Add whose job was not deleted,
\* under the id that Add returned.
C8_ListExact ==
    \A l \in Calls :
        (/\ calls[l].op = "List" /\ calls[l].pc = "done" /\ calls[l].quiet
         /\ \A c \in 1..(l - 1) :
                calls[c].op \in {"Add", "Delete"} /\ calls[c].pc = "done"
         /\ \A c \in (l + 1)..MaxCalls : calls[c].pc = "idle")
        => /\ {e.key : e \in calls[l].jobs} =
                {calls[c].ret : c \in AddsBefore(l)} \ DeletedBefore(l)
           /\ Cardinality(calls[l].jobs) =
                Cardinality({c \in AddsBefore(l) :
                                calls[c].ret \notin DeletedBefore(l)})

\* C9: an Update of an id that is not in the registry is answered 404.
C9_UpdateUnknownIs404 ==
    \A c \in Calls :
        (calls[c].op = "Update" /\ calls[c].pc = "done" /\ ~calls[c].ok)
        => calls[c].status = StatusNotFound

\* C10: an Update or Delete whose lookup finds its id absent returns at
\* once and leaves the mapping, the counter, the runners, the tickers and
\* the stop channels as they were.
C10_UnknownIdNoChange ==
    [][\A c \in Calls :
          (/\ calls[c].pc \in {"upd_lookup", "del_lookup"}
           /\ calls'[c] # calls[c]
           /\ calls[c].id \notin DOMAIN healthchecks)
          => /\ calls'[c].pc = "done"
             /\ UNCHANGED <<healthchecks, nextHealthcheckId, runners,
                            tickers, chans>>]_vars

\* C10's case: an Update and a Delete of an unknown id have returned while
\* the registry holds a job with a live runner.
C10_Witness ==
    /\ healthchecks # <<>>
    /\ \E r \in DOMAIN runners : runners[r].pc = "select"
    /\ \E c, d \in Calls :
          /\ calls[c].op = "Update" /\ calls[c].pc = "done" /\ ~calls[c].ok
          /\ calls[d].op = "Delete" /\ calls[d].pc = "done" /\ ~calls[d].ok

\* C11: the job definition stored under a key carries that key as its id,
\* in every reachable state (and so do the bodies Get and List return).
C11_IdIsKey ==
    \A k \in DOMAIN healthchecks : healthchecks[k].healthcheck.Id = k

\* The runners that are to obey the stop a completed Update or Delete c
\* gave: they hold the channel c closed, or they were spawned for c's id
\* before c closed it and have not read their job yet.
Outgoing(c) ==
    {r \in DOMAIN runners :
        \/ runners[r].job.quit = calls[c].closedq
        \/ /\ runners[r].id = calls[c].id
           /\ runners[r].pc = "start"
           /\ calls[c].op = "Update" /\ r < calls[c].spawned}

\* C12: when an Update or a Delete of a live id returns (for Update: when
\* it starts the new runner), the outgoing runner has stopped its ticker
\* and left its loop.
C12_StopAcknowledged ==
    \A c \in Calls :
        (/\ calls[c].op \in {"Update", "Delete"}
         /\ calls[c].pc = "done"
         /\ calls[c].ok)
        => \A r \in Outgoing(c) : runners[r].pc = "done"

\* C16: every job definition that AddHealthcheck or UpdateHealthcheck is
\* called with has a frequency above zero, and no Add or Update fails with
\* a panic.
C16_PositiveFrequency ==
    \A c \in Calls :
        calls[c].op \in {"Add", "Update"}
        => /\ calls[c].pc \notin {"idle", "done", "panicked"}
                => calls[c].hc.Frequency > 0
           /\ calls[c].pc # "panicked"

\* C19: no runner is leaked: the stop channel of every runner in its loop
\* is closed already, or is the one the mapping holds under the runner's
\* id (so that a Delete or an Update of that id will close it).
C19_NoLeakedRunner ==
    ~crashed =>
        \A r \in DOMAIN runners :
            runners[r].pc \in {"select", "check"}
            => /\ runners[r].job.quit # NilChan
               /\ \/ chans[runners[r].job.quit] >= 1
                  \/ /\ runners[r].id \in DOMAIN healthchecks
                     /\ healthchecks[runners[r].id].quit = runners[r].job.quit

\* The call that spawned runner r.
Spawner(r) == CHOOSE c \in Calls : calls[c].spawned = r

\* C20: each runner works on the ticker and the stop channel made by the
\* Add or Update call that spawned it: once it has read its job, the entry
\* it read was there (no nil ticker, no nil channel) and is the one its
\* spawner stored.
C20_RunnerOwnsItsJob ==
    \A r \in DOMAIN runners :
        runners[r].pc # "start"
        => /\ runners[r].job.ticker # NilTicker
           /\ runners[r].job.quit # NilChan
           /\ runners[r].job.ticker = calls[Spawner(r)].job.ticker
           /\ runners[r].job.quit = calls[Spawner(r)].job.quit

\* A call sent after call c is an Update or a Delete of c's id.
LaterChange(c) ==
    \E d \in (c + 1)..MaxCalls :
        calls[d].op \in {"Update", "Delete"} /\ calls[d].id = calls[c].id

\* Runner r, spawned by the completed Update c of a live id, is inside a
\* check and no later Update or Delete of that id has been sent.
ChecksFor(r, c) ==
    /\ calls[c].op = "Update" /\ calls[c].pc = "done" /\ calls[c].ok
    /\ calls[c].spawned = r
    /\ runners[r].pc = "check"
    /\ ~LaterChange(c)

\* C14: a check started by the runner that Update(X, newSpec) spawned is
\* performed with newSpec's probe parameters and paced by a ticker of
\* newSpec's frequency, until a later Update or Delete of X.
C14_NewRunnerUsesNewSpec ==
    \A c \in Calls : \A r \in DOMAIN runners :
        ChecksFor(r, c)
        => /\ runners[r].job.healthcheck.Url = calls[c].hc.Url
           /\ runners[r].job.healthcheck.Frequency = calls[c].hc.Frequency
           /\ tickers[runners[r].job.ticker].freq = calls[c].hc.Frequency

\* C14's case: a job was added, an Update gave it another url and another
\* frequency, and the runner that Update spawned is inside a check.
C14_Witness ==
    \E a, c \in Calls : \E r \in DOMAIN runners :
        /\ calls[a].op = "Add" /\ calls[a].pc = "done"
        /\ calls[a].ret = calls[c].id
        /\ ChecksFor(r, c)
        /\ calls[a].job.healthcheck.Url # calls[c].hc.Url
        /\ calls[a].job.healthcheck.Frequency # calls[c].hc.Frequency

\* Runner r has kept pace with its ticker: the checks it started, and the
\* tick still in the channel, are the periods that have elapsed since the
\* ticker was made.
KeepsPace(r) ==
    Stat(r).started + tickers[runners[r].job.ticker].pending
        = Elapsed(runners[r].job.ticker) \div Period(r)

\* The checks of runner r that are in flight: one or none.
InCheck(r) == IF runners[r].pc = "check" THEN 1 ELSE 0

\* C13: for a job that is neither updated nor deleted and whose checks
\* each take less than its period f, the checks started when k*f has
\* elapsed since the job's ticker was made are exactly k, and every check
\* that returned wrote exactly one result record.
C13_OneCheckPerPeriod ==
    \A r \in DOMAIN runners :
        (runners[r].pc \in {"select", "check"} /\ ~Stat(r).slow)
        => /\ KeepsPace(r)
           /\ Stat(r).logged + InCheck(r) = Stat(r).started

\* C13's case: a job of period 2 has run for two periods or more, a check
\* of it took time, and its runner is back in its select with two checks
\* started and two records written.
C13_Witness ==
    \E r \in DOMAIN runners :
        /\ runners[r].pc = "select" /\ ~Stat(r).slow
        /\ Period(r) = 2
        /\ Stat(r).prev = 1
        /\ Stat(r).started = 2 /\ Stat(r).logged = 2

\* C17: a failed check never stops a job: after any number of DOWN results
\* in a row the runner is in its loop, its ticker runs, and it goes on
\* starting one check per tick.
C17_FailureKeepsRunning ==
    \A r \in DOMAIN runners :
        Stat(r).fails >= 1
        => /\ runners[r].pc \in {"select", "check"}
           /\ ~tickers[runners[r].job.ticker].stopped
           /\ ~Stat(r).slow => KeepsPace(r)

\* C17's case: after two DOWN results in a row the runner has taken the
\* next tick and is inside its third check, or a later one.
C17_Witness ==
    \E r \in DOMAIN runners :
        /\ Stat(r).fails >= 2
        /\ runners[r].pc = "check"
        /\ Stat(r).started >= 3

\* C18: ticks are not queued: a ticker's channel never holds more than one
\* tick, and a runner never starts more than one check at one instant,
\* however long the check before it took.
C18_NoCatchUpBurst ==
    /\ \A t \in DOMAIN tickers : tickers[t].pending <= 1
    /\ \A r \in DOMAIN runners : Stat(r).atonce <= 1

\* C18's case: a check took two periods or more; at the instant it
\* returned the runner took the one tick that was waiting and started a
\* check, and the channel is empty: the check after it has to wait for the
\* ticker to fire again.
C18_Witness ==
    \E r \in DOMAIN runners :
        /\ runners[r].pc = "check"
        /\ Stat(r).prev >= 2 * Period(r)
        /\ Stat(r).ret = now
        /\ Stat(r).atonce = 1
        /\ tickers[runners[r].job.ticker].pending = 0

\* The conditions under which the verifier is to pass.
Passes(h, resp) ==
    /\ h.Method = "GET"
    /\ resp.outcome = "response"
    /\ resp.StatusCode = h.ExpectedStatus
    /\ \/ ~h.HasQuery
       \/ /\ resp.Body = "json"
          /\ Len(resp.Results) >= 1
          /\ resp.Results[1] = Box(h.Expectation)

\* The response resp with only the first result of the query kept.
FirstOnly(resp) ==
    [resp EXCEPT !.Results = IF @ = <<>> THEN @ ELSE <<Head(@)>>]

====
